---- MODULE Spec2Model ----
(***************************************************************************)
(* Admission control and job lifecycle of the Panetone service.            *)
(*                                                                         *)
(* main.py keeps active_runs, queued_tasks and run_results; automation.py  *)
(* keeps the ResourceManager singleton (active_instances, max_instances,   *)
(* system_resources, last_resource_check).  Everything runs on one asyncio *)
(* event loop: a task runs until it awaits something that really suspends. *)
(* The variable cur names the task that holds the event loop; NoJob means  *)
(* the loop is between tasks (a switch point).  Awaits of coroutines that  *)
(* never suspend (check_resources, Queue.put on an unbounded queue,        *)
(* Queue.get on a non-empty queue, process_queue) keep the loop.           *)
(***************************************************************************)
EXTENDS Integers, Sequences, FiniteSets, TLC

\* ------------------------------------------------------------------ bounds
MaxJobs == 3
MaxLiveJobs == 2
MaxNavJobs == 2
MaxQueueJobs == 4
MaxCores == 25
TickStep == 10
MaxElements == 2
MaxRetries == 4
MaxCallers == 3

Jobs == 1..MaxJobs
LiveJobs == 1..MaxLiveJobs
NavJobs == 1..MaxNavJobs
QueueJobs == 1..MaxQueueJobs
\* every run_id some specification below submits
\* the tasks and threads that call ResourceManager()
Callers == 1..MaxCallers
AllJobs == Jobs \cup LiveJobs \cup NavJobs \cup QueueJobs \cup Callers
NoJob == 0
\* psutil.cpu_count() returned None
NoCores == 0

\* host metric samples: CPU utilisation in percent, logical cores,
\* available memory in tenths of a GB
CpuSamples == {0, 50, 100}
CoreSamples == {1, 2}
MemSamples == {4, 30}

\* every whole CPU percentage, every core count up to MaxCores and memory
\* sizes on both sides of the CPU limit
AllCpu == 0..100
AllCores == 1..MaxCores
AllMem == {4, 5, 145}

\* ------------------------------------------------- program constants
resource_check_interval == 10
\* 0.5 core and 0.5 GB per instance, in tenths
cpu_per_instance == 5
memory_per_instance_gb == 5
\* @retry_on_failure(max_retries=3, delay=1) on login
login_max_retries == 3
\* for attempt in range(3) around page.goto
nav_attempts == 3
\* for attempt in range(3) around each field of the login form
field_attempts == 3
\* max_attempts: int = 3 of _try_fill_input and _try_click_button
max_attempts == 3
\* @retry_on_failure(max_retries=3, delay=2) on verificar_elegibilidade
verify_max_retries == 3

VARIABLES
  run_results,        \* job -> [status, result]
  active_runs,        \* main.py set of job ids
  queued_tasks,       \* main.py FIFO queue, head first
  active_instances,   \* ResourceManager.active_instances
  max_instances,      \* ResourceManager.max_instances
  system_resources,   \* ResourceManager.system_resources
  cpu_usage,          \* the sample _calculate_limits last took
  since_last_check,   \* time.time() - last_resource_check, capped
  since_last_recalc,  \* history: time since _calculate_limits last ran, capped
  metrics_failed,     \* history: the latest psutil sampling raised
  lock,               \* holder of ResourceManager._lock, or NoJob
  pc,                 \* job -> position of its handler / task
  cur,                \* task holding the event loop, or NoJob
  outcome,            \* job -> result or exception of run_automation
  login_state,        \* job -> locals of login and its retry wrapper, and
                      \* whether a navigation of this login call succeeded
  enqueue_log,        \* history: jobs in the order create_run queued them
  dequeue_log,        \* history: jobs in the order process_queue started them
  released,           \* history: job -> number of release_instance calls
  removed,            \* history: job -> number of active_runs.remove calls
  drained             \* history: job -> number of process_queue calls made by its task

VARIABLES
  field               \* locals of one field loop of login and of the _try_* call it
                      \* is in, with counts of what the loop has done so far
VARIABLES
  verify              \* the page verificar_elegibilidade looks at, its locals and
                      \* those of its retry wrapper, and the record of the job
VARIABLES
  retry               \* a wrapper made by retry_on_failure: its arguments, its
                      \* locals and counts of what it has done so far
VARIABLES
  singleton           \* ResourceManager._instance, the position of every caller
                      \* of ResourceManager() and what each got back

vars == <<run_results, active_runs, queued_tasks, active_instances,
          max_instances, system_resources, cpu_usage, since_last_check,
          since_last_recalc, metrics_failed, lock, pc, cur, outcome, login_state,
          enqueue_log, dequeue_log, released, removed, drained, field, verify,
          retry, singleton>>

rm_vars == <<active_instances, max_instances, system_resources, cpu_usage,
             since_last_check, since_last_recalc, metrics_failed, lock>>
hist_vars == <<enqueue_log, dequeue_log, released, removed, drained>>
\* the variables of the service as a whole
service_vars == <<run_results, active_runs, queued_tasks, active_instances,
                  max_instances, system_resources, cpu_usage, since_last_check,
                  since_last_recalc, metrics_failed, lock, pc, cur, outcome,
                  login_state, enqueue_log, dequeue_log, released, removed, drained>>
\* the variables of the operations modelled in detail further down
detail_vars == <<field, verify, retry, singleton>>

Min(a, b) == IF a < b THEN a ELSE b
Max(a, b) == IF a > b THEN a ELSE b

\* ------------------------------------------------------ ResourceManager

\* Python floats are IEEE-754 binary64 numbers: 53 significant bits, every
\* operation rounded to the nearest double, ties to even.  A double is
\* [m, e] with value m * 2^e, where m is a natural number written as a
\* sequence of limbs in base LimbBase, most significant first (limbs keep
\* the arithmetic inside the integers of the model checker).
LimbBase == 2^15

RECURSIVE limbs_value(_)
limbs_value(x) ==
  IF x = << >> THEN 0
  ELSE limbs_value(SubSeq(x, 1, Len(x) - 1)) * LimbBase + x[Len(x)]

\* long division of x by a small d, with remainder r carried in
RECURSIVE limbs_divmod(_, _, _)
limbs_divmod(x, d, r) ==
  IF x = << >> THEN [q |-> << >>, r |-> r]
  ELSE LET t == r * LimbBase + Head(x)
           rest == limbs_divmod(Tail(x), d, t % d)
       IN [q |-> <<t \div d>> \o rest.q, r |-> rest.r]

\* x * c + carry for a small c
RECURSIVE limbs_mul(_, _, _)
limbs_mul(x, c, carry) ==
  IF x = << >> THEN <<carry>>
  ELSE LET n == Len(x)
           t == x[n] * c + carry
       IN limbs_mul(SubSeq(x, 1, n - 1), c, t \div LimbBase) \o <<t % LimbBase>>

RECURSIVE limbs_add1(_)
limbs_add1(x) ==
  IF x = << >> THEN <<1>>
  ELSE LET n == Len(x) IN
       IF x[n] + 1 < LimbBase THEN [x EXCEPT ![n] = @ + 1]
       ELSE limbs_add1(SubSeq(x, 1, n - 1)) \o <<0>>

\* number of binary digits of v > 0, and of x
bit_width(v) == CHOOSE k \in 1..30 : 2^(k - 1) <= v /\ v < 2^k

limbs_bits(x) ==
  LET nz == {i \in 1..Len(x) : x[i] # 0} IN
  IF nz = {} THEN 0
  ELSE LET i == CHOOSE k \in nz : \A l \in nz : k <= l
       IN bit_width(x[i]) + 15 * (Len(x) - i)

\* the double nearest to x * 2^e (plus a positive fraction of 2^e if
\* inexact): keep 53 bits, round half to even
float_round(x, e, inexact) ==
  LET t == limbs_bits(x) - 53 IN
  IF t <= 0 THEN [m |-> x, e |-> e]
  ELSE LET dm == limbs_divmod(x, 2^t, 0)
           half == 2^(t - 1)
           odd == dm.q[Len(dm.q)] % 2 = 1
           up == dm.r > half \/ (dm.r = half /\ (inexact \/ odd))
       IN [m |-> IF up THEN limbs_add1(dm.q) ELSE dm.q, e |-> e + t]

\* a / d for whole numbers 0 <= a <= d <= 100: the quotient of a * 2^60 by
\* d has at least 53 bits, and is then rounded
float_div_int(a, d) ==
  LET dm == limbs_divmod(<<a, 0, 0, 0, 0>>, d, 0)
  IN float_round(dm.q, 0 - 60, dm.r # 0)

\* x * c for a whole number c (which is a double itself)
float_mul_int(x, c) == float_round(limbs_mul(x.m, c, 0), x.e, FALSE)

\* x / 0.5: exact, only the exponent moves
float_div_half(x) == [x EXCEPT !.e = @ + 1]

\* math.floor(x)
float_floor(x) ==
  IF x.e >= 0 THEN limbs_value(x.m) * 2^(x.e)
  ELSE LET k == 0 - x.e
           keep == Len(x.m) - (k \div 15)
       IN IF keep <= 0 THEN 0
          ELSE limbs_value(limbs_divmod(SubSeq(x.m, 1, keep), 2^(k % 15), 0).q)

\* math.floor((available_cpu / 100) * cpu_cores / cpu_per_instance), with
\* cpu_per_instance = 0.5, worked out once for every sample
cpu_limit_values ==
  [u \in AllCpu, c \in AllCores |->
     float_floor(float_div_half(float_mul_int(float_div_int(100 - u, 100), c)))]

cpu_limit(u, cpu_cores) == cpu_limit_values[u, cpu_cores]

\* math.floor(available_memory_gb / memory_per_instance_gb): the division
\* by 0.5 is exact, so this is the floor of the exact quotient
memory_limit(available_memory) == available_memory \div memory_per_instance_gb

\* variant of _calculate_limits without the floor of one instance
calculate_limits_nofloor(u, res) ==
  Min(cpu_limit(u, res.cpu_cores), memory_limit(res.available_memory))

\* _calculate_limits: the smaller limit, at least one instance
calculate_limits(u, res) ==
  Max(1, Min(cpu_limit(u, res.cpu_cores), memory_limit(res.available_memory)))

\* update_system_resources followed by _calculate_limits, on fresh samples
\* drawn from U, C and M
RecomputeFrom(U, C, M) ==
  \E u \in U, c \in C, m \in M :
    /\ system_resources' = [cpu_cores |-> c, available_memory |-> m]
    /\ cpu_usage' = u
    /\ max_instances' = calculate_limits(u, system_resources')
    /\ since_last_recalc' = 0
    /\ metrics_failed' = FALSE

Recompute == RecomputeFrom(CpuSamples, CoreSamples, MemSamples)

\* check_resources: throttled recomputation
check_resources ==
  IF since_last_check > resource_check_interval
  THEN Recompute /\ since_last_check' = 0
  ELSE UNCHANGED <<system_resources, cpu_usage, max_instances, since_last_check,
                   since_last_recalc, metrics_failed>>

Status(j) == run_results[j].status

\* variant that forgets run_results[run_id]["status"] = "running"
mark_running_skip(rr, j) == rr

\* run_results[run_id]["status"] = "running"
mark_running(rr, j) == [rr EXCEPT ![j].status = "running"]

\* ------------------------------------------ the field loops of login
\* the three loops of login after the navigation: the login field, the
\* password field and the submit button
FieldLoops == {"login", "senha", "button"}

\* len(login_selectors), len(password_selectors), len(button_selectors)
selectors(loop) == IF loop = "login" THEN 5 ELSE 10

\* the strategies one attempt of the helper of the loop goes through:
\* fill, type and JavaScript in _try_fill_input (is_cpf is False in login),
\* click, JavaScript click, parent button and dispatched events in
\* _try_click_button
strategies(loop) == IF loop = "button" THEN 4 ELSE 3

\* a strategy that can return without raising and without success: every
\* fill strategy compares the value of the field afterwards, and the third
\* click strategy does nothing when the element has no parent button
can_decline(loop, s) == loop # "button" \/ s = 3

\* what a call of the driver does: it returns ("ok"), raises playwright's
\* TimeoutError or raises another error (target closed, element detached)
DriverResults == {"ok", "timeout", "error"}
\* a strategy can also return without having done its work
StrategyResults == DriverResults \cup {"no"}

\* the loop is entered: attempt 0, before the first selector
field_start(loop) ==
  [loop |-> loop, at |-> "selectors", attempt |-> 0, sel |-> 1,
   try_attempt |-> 0, strat |-> 1, sel_log |-> << >>, strat_log |-> << >>,
   prepare_raised |-> FALSE, last |-> "none", helper |-> "none", failed |-> 0,
   backoffs |-> 0, reloads |-> 0, exit |-> "none"]

\* no login is being followed in detail
field_idle == [field_start("login") EXCEPT !.at = "idle"]

\* ------------------------------------------------- retry_on_failure
\* the exceptions the wrapped function can raise, told apart by their text
Errors == {"e1", "e2", "e3"}
\* delay=1 on login, delay=2 on verificar_elegibilidade and by default
Delays == {1, 2}

\* the wrapper is called: attempt 0, nothing invoked yet
retry_start(n, d) ==
  [max_retries |-> n, delay |-> d, at |-> "call", attempt |-> 0, calls |-> 0,
   sleeps |-> 0, slept |-> 0, errors |-> << >>, message |-> "none"]

\* no wrapper is being followed in detail
retry_idle == [retry_start(1, 1) EXCEPT !.at = "idle"]

\* ---------------------------------------------- ResourceManager.__new__
\* cls._instance is None
NoInstance == 0

\* before main.py is imported: no instance, no caller has started
singleton_start ==
  [instance |-> NoInstance, created |-> 0, inits |-> 0,
   at |-> [c \in Callers |-> "start"], got |-> [c \in Callers |-> NoInstance]]

\* ------------------------------- the result search of the verification
\* what the text of an element of the result page says, as far as the
\* search can tell:
\*   "eligible"      it says the client is eligible ("cliente elegível")
\*   "not eligible"  it says the client is not ("não elegível", "inelegível")
\*   "both"          it says both, of different things
\*   "other"         it says neither ("carregando...")
\*   "null"          text_content() returns None, so that text.lower() raises,
\*                   or query_selector_all itself raises
Texts == {"eligible", "not eligible", "both", "other", "null"}
says_eligible(t) == t \in {"eligible", "both"}
says_not_eligible(t) == t \in {"not eligible", "both"}

\* "elegível" in text or "elegivel" in text; every entry of text_match
\* ("não elegível", "inelegível", ...) contains one of the two as well, so
\* both result strategies make this same test
text_matches(t) == t \in {"eligible", "not eligible", "both"}

\* the lists of elements of at most n texts
Elements(n) == UNION {[1..k -> Texts] : k \in 0..n}

\* the loop over the elements of one strategy: the text of the first element
\* that matches; an exception in the loop is caught around the strategy,
\* which is given up
RECURSIVE first_match(_)
first_match(elements) ==
  IF elements = << >> THEN "none"
  ELSE IF Head(elements) = "null" THEN "none"
  ELSE IF text_matches(Head(elements)) THEN Head(elements)
  ELSE first_match(Tail(elements))

\* the loop over result_strategies: the elements with a data-testid first,
\* then headings, paragraphs and divs
result_search(testid, generic) ==
  IF first_match(testid) # "none" THEN first_match(testid) ELSE first_match(generic)

\* result_text: "Resultado Indeterminado" unless an element matched, then its text
result_text(testid, generic) ==
  IF result_search(testid, generic) = "none" THEN "Resultado Indeterminado"
  ELSE result_search(testid, generic)

\* the verification is entered with this page in front of it
verify_start(testid, generic, loading) ==
  [at |-> "steps", attempt |-> 0, testid |-> testid, generic |-> generic,
   loading |-> loading, searches |-> 0, result_found |-> FALSE, result |-> "none",
   status |-> "running"]

\* no verification is being followed in detail
verify_idle == [verify_start(<< >>, << >>, FALSE) EXCEPT !.at = "idle"]

TypeOK ==
  /\ run_results \in [AllJobs -> [status : {"none", "pending", "queued", "running", "completed", "failed"},
                               result : {"none", "outcome", "error"}]]
  /\ active_runs \subseteq AllJobs
  /\ queued_tasks \in Seq(AllJobs)
  /\ active_instances \subseteq AllJobs
  /\ max_instances \in Nat
  /\ system_resources \in [cpu_cores : AllCores \cup {NoCores},
                           available_memory : MemSamples \cup AllMem]
  /\ cpu_usage \in AllCpu
  /\ since_last_check \in 0..(resource_check_interval + 1)
  /\ since_last_recalc \in 0..since_last_check
  /\ metrics_failed \in BOOLEAN
  /\ lock \in AllJobs \cup {NoJob}
  /\ cur \in AllJobs \cup {NoJob}
  /\ pc \in [AllJobs -> {"unsubmitted", "cr_check", "cr_admit", "queued", "scheduled",
                      "acq_check", "acq_lock", "acq_test", "sleeping",
                      "launch", "login", "login_form", "verify", "rel_lock", "rel_body",
                      "set_status", "remove", "drain", "done", "aborted"}]
  /\ outcome \in [AllJobs -> {"none", "ok", "launch", "navigation", "login", "verify",
                           "metrics"}]
  /\ login_state \in [AllJobs -> [attempt : 0..(login_max_retries - 1),
                                nav : 0..(nav_attempts - 1),
                                page : {"none", "failed", "loaded"}]]
  /\ retry.max_retries \in 1..MaxRetries
  /\ retry.delay \in Delays
  /\ retry.at \in {"idle", "call", "sleep", "returned", "raised"}
  /\ retry.attempt \in 0..(MaxRetries - 1)
  /\ retry.calls \in 0..MaxRetries
  /\ retry.sleeps \in 0..MaxRetries
  /\ retry.slept \in 0..(2 * MaxRetries)
  /\ retry.errors \in Seq(Errors)
  /\ retry.message \in Errors \cup {"none"}
  /\ singleton.instance \in 0..MaxCallers
  /\ singleton.created \in 0..MaxCallers
  /\ singleton.inits \in 0..MaxCallers
  /\ singleton.at \in [Callers -> {"start", "test", "create", "return", "has", "checked",
                                      "admitted"}]
  /\ singleton.got \in [Callers -> 0..MaxCallers]
  /\ verify.at \in {"idle", "steps", "search", "left"}
  /\ verify.attempt \in 0..(verify_max_retries - 1)
  /\ verify.testid \in Elements(MaxElements)
  /\ verify.generic \in Elements(MaxElements)
  /\ verify.loading \in BOOLEAN
  /\ verify.searches \in 0..verify_max_retries
  /\ verify.result_found \in BOOLEAN
  /\ verify.result \in Texts \cup {"none", "Resultado Indeterminado", "error"}
  /\ verify.status \in {"running", "completed", "failed"}
  /\ field.loop \in FieldLoops
  /\ field.at \in {"idle", "selectors", "prepare", "strategy", "reload", "left"}
  /\ field.attempt \in 0..(field_attempts - 1)
  /\ field.sel \in 1..selectors(field.loop)
  /\ field.try_attempt \in 0..(max_attempts - 1)
  /\ field.strat \in 1..strategies(field.loop)
  /\ field.sel_log \in Seq(DriverResults)
  /\ field.strat_log \in Seq((0..(max_attempts - 1)) \X (1..strategies(field.loop)))
  /\ field.prepare_raised \in BOOLEAN
  /\ field.last \in StrategyResults \cup {"none"}
  /\ field.helper \in {"none", "element", "None", "True", "False", "raise"}
  /\ field.failed \in 0..field_attempts
  /\ field.backoffs \in 0..field_attempts
  /\ field.reloads \in 0..1
  /\ field.exit \in {"none", "break", "exhausted", "timeout", "error"}

\* the state once main.py is imported: ResourceManager() has run
\* _initialize on samples drawn from U, C and M
HostInit(U, C, M) ==
  /\ run_results = [j \in AllJobs |-> [status |-> "none", result |-> "none"]]
  /\ active_runs = {}
  /\ queued_tasks = << >>
  /\ active_instances = {}
  /\ \E u \in U, c \in C, m \in M :
       /\ system_resources = [cpu_cores |-> c, available_memory |-> m]
       /\ cpu_usage = u
       /\ max_instances = calculate_limits(u, system_resources)
  /\ since_last_check = resource_check_interval + 1
  /\ since_last_recalc = 0
  /\ metrics_failed = FALSE
  /\ lock = NoJob
  /\ pc = [j \in AllJobs |-> "unsubmitted"]
  /\ cur = NoJob
  /\ outcome = [j \in AllJobs |-> "none"]
  /\ login_state = [j \in AllJobs |-> [attempt |-> 0, nav |-> 0, page |-> "none"]]
  /\ enqueue_log = << >>
  /\ dequeue_log = << >>
  /\ released = [j \in AllJobs |-> 0]
  /\ removed = [j \in AllJobs |-> 0]
  /\ drained = [j \in AllJobs |-> 0]

\* the service as a whole: no login is followed in detail
InitFrom(U, C, M) ==
  /\ HostInit(U, C, M)
  /\ field = field_idle
  /\ verify = verify_idle
  /\ retry = retry_idle
  /\ singleton = singleton_start

Init == InitFrom(CpuSamples, CoreSamples, MemSamples)

\* --------------------------------------------------------------- clock
Tick ==
  /\ cur = NoJob
  /\ since_last_recalc <= resource_check_interval
  /\ since_last_check' = Min(resource_check_interval + 1, since_last_check + TickStep)
  /\ since_last_recalc' = Min(resource_check_interval + 1, since_last_recalc + TickStep)
  /\ UNCHANGED <<run_results, active_runs, queued_tasks, active_instances,
                 max_instances, system_resources, cpu_usage, metrics_failed, lock,
                 pc, cur, outcome>>
  /\ UNCHANGED hist_vars
  /\ UNCHANGED login_state
  /\ UNCHANGED detail_vars

\* ------------------------------------------------- GET /api/dashboard-data
get_dashboard_data ==
  /\ cur = NoJob
  /\ check_resources
  /\ UNCHANGED <<run_results, active_runs, queued_tasks, active_instances, lock,
                 pc, cur, outcome>>
  /\ UNCHANGED hist_vars
  /\ UNCHANGED login_state
  /\ UNCHANGED detail_vars

\* ------------------------------------------------------------ POST /run
\* run_results[run_id] = {"status": "pending"}
create_run(j) ==
  /\ cur = NoJob
  /\ pc[j] = "unsubmitted"
  /\ \A i \in AllJobs : i < j => pc[i] # "unsubmitted"
  /\ run_results' = [run_results EXCEPT ![j] = [status |-> "pending", result |-> "none"]]
  /\ pc' = [pc EXCEPT ![j] = "cr_check"]
  /\ cur' = j
  /\ UNCHANGED <<active_runs, queued_tasks, outcome>>
  /\ UNCHANGED rm_vars
  /\ UNCHANGED hist_vars
  /\ UNCHANGED login_state
  /\ UNCHANGED detail_vars

\* await resource_manager.check_resources()
create_run_check(j) ==
  /\ cur = j
  /\ pc[j] = "cr_check"
  /\ check_resources
  /\ pc' = [pc EXCEPT ![j] = "cr_admit"]
  /\ UNCHANGED <<run_results, active_runs, queued_tasks, active_instances, lock, cur, outcome>>
  /\ UNCHANGED hist_vars
  /\ UNCHANGED login_state
  /\ UNCHANGED detail_vars

\* variant of create_run that starts every submission at once
run_slot_free_always == TRUE

\* if len(active_runs) < resource_manager.max_instances
run_slot_free == Cardinality(active_runs) < max_instances

\* the admission decision: start the task or put the job in the queue
create_run_admit(j) ==
  /\ cur = j
  /\ pc[j] = "cr_admit"
  /\ IF run_slot_free
     THEN /\ active_runs' = active_runs \cup {j}
          /\ run_results' = mark_running(run_results, j)
          /\ pc' = [pc EXCEPT ![j] = "scheduled"]
          /\ UNCHANGED <<queued_tasks, enqueue_log>>
     ELSE /\ queued_tasks' = Append(queued_tasks, j)
          /\ run_results' = [run_results EXCEPT ![j].status = "queued"]
          /\ pc' = [pc EXCEPT ![j] = "queued"]
          /\ enqueue_log' = Append(enqueue_log, j)
          /\ UNCHANGED active_runs
  /\ cur' = NoJob
  /\ UNCHANGED outcome
  /\ UNCHANGED rm_vars
  /\ UNCHANGED <<dequeue_log, released, removed, drained>>
  /\ UNCHANGED login_state
  /\ UNCHANGED detail_vars

\* ------------------------------------------------------- automation_task
\* the event loop starts the task made by asyncio.create_task; it enters
\* run_automation, where ResourceManager() returns the singleton
task_start(j) ==
  /\ cur = NoJob
  /\ pc[j] = "scheduled"
  /\ pc' = [pc EXCEPT ![j] = "acq_check"]
  /\ cur' = j
  /\ UNCHANGED <<run_results, active_runs, queued_tasks, outcome>>
  /\ UNCHANGED rm_vars
  /\ UNCHANGED hist_vars
  /\ UNCHANGED login_state
  /\ UNCHANGED detail_vars

\* acquire_instance: await self.check_resources()
acquire_check(j) ==
  /\ cur = j
  /\ pc[j] = "acq_check"
  /\ check_resources
  /\ pc' = [pc EXCEPT ![j] = "acq_lock"]
  /\ UNCHANGED <<run_results, active_runs, queued_tasks, active_instances, lock, cur, outcome>>
  /\ UNCHANGED hist_vars
  /\ UNCHANGED login_state
  /\ UNCHANGED detail_vars

\* acquire_instance: with self._lock
acquire_lock(j) ==
  /\ cur = j
  /\ pc[j] = "acq_lock"
  /\ lock = NoJob
  /\ lock' = j
  /\ pc' = [pc EXCEPT ![j] = "acq_test"]
  /\ UNCHANGED <<run_results, active_runs, queued_tasks, active_instances,
                 max_instances, system_resources, cpu_usage, since_last_check,
                 since_last_recalc, metrics_failed, cur, outcome>>
  /\ UNCHANGED hist_vars
  /\ UNCHANGED login_state
  /\ UNCHANGED detail_vars

\* variant of the test of acquire_instance that is off by one
instances_full_strict == Cardinality(active_instances) > max_instances

\* the test of acquire_instance: no slot when the active set is full
instances_full == Cardinality(active_instances) >= max_instances

\* acquire_instance: the body under the lock.  False sends run_automation
\* to asyncio.sleep(5); True lets it enter the browser automation, which
\* suspends at its first await.
acquire_test(j) ==
  /\ cur = j
  /\ pc[j] = "acq_test"
  /\ lock = j
  /\ IF instances_full
     THEN /\ pc' = [pc EXCEPT ![j] = "sleeping"]
          /\ UNCHANGED active_instances
     ELSE /\ active_instances' = active_instances \cup {j}
          /\ pc' = [pc EXCEPT ![j] = "launch"]
  /\ lock' = NoJob
  /\ cur' = NoJob
  /\ UNCHANGED <<run_results, active_runs, queued_tasks, max_instances,
                 system_resources, cpu_usage, since_last_check, since_last_recalc,
                 metrics_failed, outcome>>
  /\ UNCHANGED hist_vars
  /\ UNCHANGED login_state
  /\ UNCHANGED detail_vars

\* asyncio.sleep(5) is over: the while loop calls acquire_instance again
acquire_retry(j) ==
  /\ cur = NoJob
  /\ pc[j] = "sleeping"
  /\ pc' = [pc EXCEPT ![j] = "acq_check"]
  /\ cur' = j
  /\ UNCHANGED <<run_results, active_runs, queued_tasks, outcome>>
  /\ UNCHANGED rm_vars
  /\ UNCHANGED hist_vars
  /\ UNCHANGED login_state
  /\ UNCHANGED detail_vars

\* the stages of the body of run_automation, in order
NextStage(st) == IF st = "launch" THEN "login" ELSE "verify"
Stages == {"launch", "login", "verify"}

\* a stage (browser launch and initialize, login) completes; the task is
\* suspended in the next one
browser_advance(j) ==
  /\ cur = NoJob
  /\ pc[j] \in {"launch", "login"}
  /\ pc' = [pc EXCEPT ![j] = NextStage(pc[j])]
  /\ UNCHANGED <<run_results, active_runs, queued_tasks, cur, outcome>>
  /\ UNCHANGED rm_vars
  /\ UNCHANGED hist_vars
  /\ UNCHANGED login_state
  /\ UNCHANGED detail_vars

\* verificar_elegibilidade returns: run_automation reaches its return and
\* then its finally clause
browser_succeed(j) ==
  /\ cur = NoJob
  /\ pc[j] = "verify"
  /\ outcome' = [outcome EXCEPT ![j] = "ok"]
  /\ pc' = [pc EXCEPT ![j] = "rel_lock"]
  /\ cur' = j
  /\ UNCHANGED <<run_results, active_runs, queued_tasks>>
  /\ UNCHANGED rm_vars
  /\ UNCHANGED hist_vars
  /\ UNCHANGED login_state
  /\ UNCHANGED detail_vars

\* variant in which the browser launch is outside the try block, so that
\* its exception skips release_instance
fail_target_skip(st) == IF st = "launch" THEN "set_status" ELSE "rel_lock"

\* where an exception of stage st takes run_automation: its finally clause
fail_target(st) == "rel_lock"

\* a stage raises (browser launch, login or verification): the exception
\* leaves the async with block and reaches the finally clause
browser_fail(j) ==
  /\ cur = NoJob
  /\ pc[j] \in Stages
  /\ outcome' = [outcome EXCEPT ![j] = pc[j]]
  /\ pc' = [pc EXCEPT ![j] = fail_target(pc[j])]
  /\ cur' = j
  /\ UNCHANGED <<run_results, active_runs, queued_tasks>>
  /\ UNCHANGED rm_vars
  /\ UNCHANGED hist_vars
  /\ UNCHANGED login_state
  /\ UNCHANGED detail_vars

\* release_instance: with self._lock
release_lock(j) ==
  /\ cur = j
  /\ pc[j] = "rel_lock"
  /\ lock = NoJob
  /\ lock' = j
  /\ pc' = [pc EXCEPT ![j] = "rel_body"]
  /\ UNCHANGED <<run_results, active_runs, queued_tasks, active_instances,
                 max_instances, system_resources, cpu_usage, since_last_check,
                 since_last_recalc, metrics_failed, cur, outcome>>
  /\ UNCHANGED hist_vars
  /\ UNCHANGED login_state
  /\ UNCHANGED detail_vars

\* variant of release_instance that leaves the id in the set
discard_skipped(s, x) == s

\* self.active_instances.discard(instance_id)
discard(s, x) == s \ {x}

\* variant of release_instance that refreshes through check_resources
release_recompute_throttled == check_resources

\* the refresh in release_instance: update_system_resources and
\* _calculate_limits, whatever last_resource_check is, and it is not touched
release_recompute == Recompute /\ UNCHANGED since_last_check

\* release_instance: discard, then the refresh, all under the lock
release_instance(j) ==
  /\ cur = j
  /\ pc[j] = "rel_body"
  /\ lock = j
  /\ active_instances' = discard(active_instances, j)
  /\ release_recompute
  /\ lock' = NoJob
  /\ released' = [released EXCEPT ![j] = @ + 1]
  /\ pc' = [pc EXCEPT ![j] = "set_status"]
  /\ UNCHANGED <<run_results, active_runs, queued_tasks, cur, outcome>>
  /\ UNCHANGED <<enqueue_log, dequeue_log, removed, drained>>
  /\ UNCHANGED login_state
  /\ UNCHANGED detail_vars

\* variant of automation_task without its except branch: an exception
\* leaves the record as it was
final_record_uncaught(o) ==
  IF o = "ok" THEN [status |-> "completed", result |-> "outcome"]
              ELSE [status |-> "running", result |-> "none"]

\* the record automation_task writes for an outcome of run_automation
final_record(o) ==
  IF o = "ok" THEN [status |-> "completed", result |-> "outcome"]
              ELSE [status |-> "failed", result |-> "error"]

\* automation_task: run_results[run_id].update(...) of the try or the
\* except branch; the result or exception is consumed here
task_set_status(j) ==
  /\ cur = j
  /\ pc[j] = "set_status"
  /\ run_results' = [run_results EXCEPT ![j] = final_record(outcome[j])]
  /\ outcome' = [outcome EXCEPT ![j] = "none"]
  /\ pc' = [pc EXCEPT ![j] = "remove"]
  /\ UNCHANGED <<active_runs, queued_tasks, cur>>
  /\ UNCHANGED rm_vars
  /\ UNCHANGED hist_vars
  /\ UNCHANGED login_state
  /\ UNCHANGED detail_vars

\* variant of the finally clause of automation_task that does not call
\* process_queue
task_remove_nodrain(j) ==
  /\ cur = j
  /\ pc[j] = "remove"
  /\ j \in active_runs
  /\ active_runs' = active_runs \ {j}
  /\ removed' = [removed EXCEPT ![j] = @ + 1]
  /\ pc' = [pc EXCEPT ![j] = "done"]
  /\ cur' = NoJob
  /\ UNCHANGED <<run_results, queued_tasks, outcome>>
  /\ UNCHANGED rm_vars
  /\ UNCHANGED <<enqueue_log, dequeue_log, released, drained>>
  /\ UNCHANGED login_state
  /\ UNCHANGED detail_vars

\* automation_task, finally: active_runs.remove(run_id)
task_remove(j) ==
  /\ cur = j
  /\ pc[j] = "remove"
  /\ j \in active_runs
  /\ active_runs' = active_runs \ {j}
  /\ removed' = [removed EXCEPT ![j] = @ + 1]
  /\ pc' = [pc EXCEPT ![j] = "drain"]
  /\ UNCHANGED <<run_results, queued_tasks, cur, outcome>>
  /\ UNCHANGED rm_vars
  /\ UNCHANGED <<enqueue_log, dequeue_log, released, drained>>
  /\ UNCHANGED login_state
  /\ UNCHANGED detail_vars

\* ---------------------------------------------------------- process_queue
\* variant of the loop condition that starts a job only when nothing runs
can_start_idle == queued_tasks # << >> /\ active_runs = {}

\* variant of the loop condition that keeps one slot free
can_start_strict == queued_tasks # << >> /\ Cardinality(active_runs) + 1 < max_instances

\* the loop condition of process_queue
can_start == queued_tasks # << >> /\ Cardinality(active_runs) < max_instances

\* variant of queued_tasks.get() that takes the newest item
queue_get_lifo(q) == [item |-> q[Len(q)], rest |-> SubSeq(q, 1, Len(q) - 1)]

\* variant of queued_tasks.get() that reads the head and leaves it queued
queue_get_peek(q) == [item |-> Head(q), rest |-> q]

\* queued_tasks.get(): the item taken and the queue left
queue_get(q) == [item |-> Head(q), rest |-> Tail(q)]

\* variant that takes the head before it tests the capacity and puts it
\* back at the tail when it cannot start it
queue_after_refusal_requeue(q) == IF q = << >> THEN q ELSE Append(Tail(q), Head(q))

\* the queue when the loop condition is false: nothing was taken
queue_after_refusal(q) == q

\* one evaluation of the loop condition of process_queue, called from the
\* finally clause of automation_task: either one iteration of the body or
\* the return, which ends the task
process_queue(j) ==
  /\ cur = j
  /\ pc[j] = "drain"
  /\ IF can_start
     THEN LET g == queue_get(queued_tasks) IN
          /\ queued_tasks' = g.rest
          /\ active_runs' = active_runs \cup {g.item}
          /\ run_results' = mark_running(run_results, g.item)
          /\ pc' = [pc EXCEPT ![g.item] = "scheduled"]
          /\ dequeue_log' = Append(dequeue_log, g.item)
          /\ UNCHANGED <<cur, drained>>
     ELSE /\ pc' = [pc EXCEPT ![j] = "done"]
          /\ cur' = NoJob
          /\ drained' = [drained EXCEPT ![j] = @ + 1]
          /\ queued_tasks' = queue_after_refusal(queued_tasks)
          /\ UNCHANGED <<run_results, active_runs, dequeue_log>>
  /\ UNCHANGED outcome
  /\ UNCHANGED rm_vars
  /\ UNCHANGED <<enqueue_log, released, removed>>
  /\ UNCHANGED login_state
  /\ UNCHANGED detail_vars

Next ==
  \/ Tick
  \/ get_dashboard_data
  \/ \E j \in Jobs : create_run(j)
  \/ \E j \in Jobs : create_run_check(j)
  \/ \E j \in Jobs : create_run_admit(j)
  \/ \E j \in Jobs : task_start(j)
  \/ \E j \in Jobs : acquire_check(j)
  \/ \E j \in Jobs : acquire_lock(j)
  \/ \E j \in Jobs : acquire_test(j)
  \/ \E j \in Jobs : acquire_retry(j)
  \/ \E j \in Jobs : browser_advance(j)
  \/ \E j \in Jobs : browser_succeed(j)
  \/ \E j \in Jobs : browser_fail(j)
  \/ \E j \in Jobs : release_lock(j)
  \/ \E j \in Jobs : release_instance(j)
  \/ \E j \in Jobs : task_set_status(j)
  \/ \E j \in Jobs : task_remove(j)
  \/ \E j \in Jobs : process_queue(j)

Spec == Init /\ [][Next]_vars


\* ====================================================================
\* Unbounded submissions and fair scheduling
\* ====================================================================
Without(s, j) == SelectSeq(s, LAMBDA x : x # j)

\* str(uuid.uuid4()) gives every submission a fresh run_id, so submissions
\* never run out.  The finite set Jobs stands for that supply: the id of a
\* job whose task has ended is handed out again, with the bookkeeping of the
\* ended job dropped.
fresh_run_id(j) ==
  /\ cur = NoJob
  /\ pc[j] = "done"
  /\ pc' = [pc EXCEPT ![j] = "unsubmitted"]
  /\ run_results' = [run_results EXCEPT ![j] = [status |-> "none", result |-> "none"]]
  /\ enqueue_log' = Without(enqueue_log, j)
  /\ dequeue_log' = Without(dequeue_log, j)
  /\ released' = [released EXCEPT ![j] = 0]
  /\ removed' = [removed EXCEPT ![j] = 0]
  /\ drained' = [drained EXCEPT ![j] = 0]
  /\ UNCHANGED <<active_runs, queued_tasks, cur, outcome>>
  /\ UNCHANGED rm_vars
  /\ UNCHANGED login_state
  /\ UNCHANGED detail_vars

\* every step the handler or the task of job j takes once it is submitted
TaskStep(j) ==
  \/ create_run_check(j)
  \/ create_run_admit(j)
  \/ task_start(j)
  \/ acquire_check(j)
  \/ acquire_lock(j)
  \/ acquire_test(j)
  \/ acquire_retry(j)
  \/ browser_advance(j)
  \/ browser_succeed(j)
  \/ browser_fail(j)
  \/ release_lock(j)
  \/ release_instance(j)
  \/ task_set_status(j)
  \/ task_remove(j)
  \/ process_queue(j)

\* the service with at most MaxLiveJobs jobs in flight at a time and no end
\* of submissions
LiveNext ==
  \/ Tick
  \/ get_dashboard_data
  \/ \E j \in LiveJobs : create_run(j)
  \/ \E j \in LiveJobs : TaskStep(j)
  \/ \E j \in LiveJobs : fresh_run_id(j)

\* the event loop runs every ready task, timers fire and every driver call
\* returns or times out: a task that can step again and again does step
LiveSpec == Init /\ [][LiveNext]_vars /\ \A j \in LiveJobs : SF_vars(TaskStep(j))

\* a host with one core and 3 GB available whose CPU is idle or half used:
\* _calculate_limits gives two instances or one
SmallHost(A) ==
  /\ A
  /\ system_resources' = [cpu_cores |-> 1, available_memory |-> 30]
  /\ cpu_usage' \in {0, 50}

SmallHostInit == InitFrom({0, 50}, {1}, {30})

\* that host, with up to MaxJobs jobs in flight and no end of submissions
SmallHostNext ==
  \/ SmallHost(Tick)
  \/ SmallHost(get_dashboard_data)
  \/ \E j \in Jobs : SmallHost(create_run(j))
  \/ \E j \in Jobs : SmallHost(TaskStep(j))
  \/ \E j \in Jobs : SmallHost(fresh_run_id(j))

\* the same scheduling as LiveSpec
SmallHostSpec ==
  SmallHostInit /\ [][SmallHostNext]_vars /\ \A j \in Jobs : SF_vars(SmallHost(TaskStep(j)))

\* ====================================================================
\* A host whose samples always give the same capacity
\* ====================================================================
\* every recomputation (_initialize, check_resources, release_instance)
\* samples a host for which _calculate_limits gives two instances
FixedInit == Init /\ max_instances = 2
Fixed(A) == A /\ max_instances' = 2

\* at a constant capacity acquire_instance always finds a free slot, so the
\* retry after asyncio.sleep(5) has no step here
FixedNext ==
  \/ Fixed(Tick)
  \/ Fixed(get_dashboard_data)
  \/ \E j \in Jobs : Fixed(create_run(j))
  \/ \E j \in Jobs : Fixed(create_run_check(j))
  \/ \E j \in Jobs : Fixed(create_run_admit(j))
  \/ \E j \in Jobs : Fixed(task_start(j))
  \/ \E j \in Jobs : Fixed(acquire_check(j))
  \/ \E j \in Jobs : Fixed(acquire_lock(j))
  \/ \E j \in Jobs : Fixed(acquire_test(j))
  \/ \E j \in Jobs : Fixed(browser_advance(j))
  \/ \E j \in Jobs : Fixed(browser_succeed(j))
  \/ \E j \in Jobs : Fixed(browser_fail(j))
  \/ \E j \in Jobs : Fixed(release_lock(j))
  \/ \E j \in Jobs : Fixed(release_instance(j))
  \/ \E j \in Jobs : Fixed(task_set_status(j))
  \/ \E j \in Jobs : Fixed(task_remove(j))
  \/ \E j \in Jobs : Fixed(process_queue(j))
FixedSpec == FixedInit /\ [][FixedNext]_vars

\* a host whose samples always give one instance, and more submissions
SingleInit == Init /\ max_instances = 1
Single(A) == A /\ max_instances' = 1
SingleNext ==
  \/ Single(Tick)
  \/ Single(get_dashboard_data)
  \/ \E j \in QueueJobs : Single(create_run(j))
  \/ \E j \in QueueJobs : Single(create_run_check(j))
  \/ \E j \in QueueJobs : Single(create_run_admit(j))
  \/ \E j \in QueueJobs : Single(task_start(j))
  \/ \E j \in QueueJobs : Single(acquire_check(j))
  \/ \E j \in QueueJobs : Single(acquire_lock(j))
  \/ \E j \in QueueJobs : Single(acquire_test(j))
  \/ \E j \in QueueJobs : Single(browser_advance(j))
  \/ \E j \in QueueJobs : Single(browser_succeed(j))
  \/ \E j \in QueueJobs : Single(browser_fail(j))
  \/ \E j \in QueueJobs : Single(release_lock(j))
  \/ \E j \in QueueJobs : Single(release_instance(j))
  \/ \E j \in QueueJobs : Single(task_set_status(j))
  \/ \E j \in QueueJobs : Single(task_remove(j))
  \/ \E j \in QueueJobs : Single(process_queue(j))

SingleSpec == SingleInit /\ [][SingleNext]_vars

\* ====================================================================
\* PanAutomation.login in detail: navigation attempts and the retry wrapper
\* ====================================================================
\* what one await self.page.goto(...) and the waits after it can do:
\*   "ok"      a response with status 200, body visible
\*   "timeout" goto or wait_for_selector raises TimeoutError
\*   "none"    goto returns no response: raise TimeoutError
\*   "status"  response.status != 200: raise AutomationError
GotoResults == {"ok", "timeout", "none", "status"}

\* variant of the navigation loop without its else clause: after the last
\* failed attempt login goes on to the form
nav_after_timeout_fallthrough(n) == IF n < nav_attempts - 1 THEN "again" ELSE "form"

\* the navigation loop after the TimeoutError of attempt n was caught: the
\* next attempt, or the else clause of the for loop, which raises
nav_after_timeout(n) == IF n < nav_attempts - 1 THEN "again" ELSE "raise"

\* the locals when the wrapper of login is entered (and, here, once it is left)
login_entry == [attempt |-> 0, nav |-> 0, page |-> "none"]

\* an invocation of login raised: the except clauses of login turn the
\* exception into AutomationError and the wrapper of retry_on_failure either
\* sleeps and calls login again or raises AutomationError("Falha apos ...")
\* which leaves the async with block of run_automation for its finally; ls
\* is login_state with the failure of this invocation noted.  The outcome
\* tells a login that never loaded the page from one that failed later.
login_raise(j, ls) ==
  IF login_state[j].attempt < login_max_retries - 1
  THEN /\ login_state' = [ls EXCEPT ![j].attempt = @ + 1, ![j].nav = 0]
       /\ pc' = [pc EXCEPT ![j] = "login"]
       /\ UNCHANGED <<outcome, cur>>
  ELSE /\ outcome' = [outcome EXCEPT
                         ![j] = IF ls[j].page = "loaded" THEN "login" ELSE "navigation"]
       /\ pc' = [pc EXCEPT ![j] = fail_target("login")]
       /\ cur' = j
       /\ login_state' = [login_state EXCEPT ![j] = login_entry]

\* a failed navigation attempt is noted unless the page was loaded by an
\* earlier invocation
nav_failed(j) ==
  [login_state EXCEPT ![j].page = IF @ = "loaded" THEN "loaded" ELSE "failed"]

\* one navigation attempt of login ends with result r
login_goto(j, r) ==
  /\ cur = NoJob
  /\ pc[j] = "login"
  /\ IF r = "ok"
     THEN /\ login_state' = [login_state EXCEPT ![j].page = "loaded"]
          /\ pc' = [pc EXCEPT ![j] = "login_form"]
          /\ UNCHANGED <<outcome, cur>>
     ELSE IF r = "status"
     THEN login_raise(j, nav_failed(j))
     ELSE LET then == nav_after_timeout(login_state[j].nav) IN
          IF then = "again"
          THEN /\ login_state' = [nav_failed(j) EXCEPT ![j].nav = @ + 1]
               /\ UNCHANGED <<pc, outcome, cur>>
          ELSE IF then = "form"
          THEN /\ pc' = [pc EXCEPT ![j] = "login_form"]
               /\ login_state' = nav_failed(j)
               /\ UNCHANGED <<outcome, cur>>
          ELSE login_raise(j, nav_failed(j))
  /\ UNCHANGED <<run_results, active_runs, queued_tasks>>
  /\ UNCHANGED rm_vars
  /\ UNCHANGED hist_vars
  /\ UNCHANGED detail_vars

\* the rest of login (fill the login and password fields, click the
\* button): it returns, or one of its loops raises
login_form(j, ok) ==
  /\ cur = NoJob
  /\ pc[j] = "login_form"
  /\ IF ok
     THEN /\ pc' = [pc EXCEPT ![j] = "verify"]
          /\ login_state' = [login_state EXCEPT ![j] = login_entry]
          /\ UNCHANGED <<outcome, cur>>
     ELSE login_raise(j, login_state)
  /\ UNCHANGED <<run_results, active_runs, queued_tasks>>
  /\ UNCHANGED rm_vars
  /\ UNCHANGED hist_vars
  /\ UNCHANGED detail_vars

\* automation.initialize() returns: the task is suspended in login
launch_done(j) == pc[j] = "launch" /\ browser_advance(j)

\* the browser launch or verificar_elegibilidade raises
stage_fail(j) == pc[j] \in {"launch", "verify"} /\ browser_fail(j)

NavNext ==
  \/ Tick
  \/ get_dashboard_data
  \/ \E j \in NavJobs : create_run(j)
  \/ \E j \in NavJobs : create_run_check(j)
  \/ \E j \in NavJobs : create_run_admit(j)
  \/ \E j \in NavJobs : task_start(j)
  \/ \E j \in NavJobs : acquire_check(j)
  \/ \E j \in NavJobs : acquire_lock(j)
  \/ \E j \in NavJobs : acquire_test(j)
  \/ \E j \in NavJobs : acquire_retry(j)
  \/ \E j \in NavJobs : launch_done(j)
  \/ \E j \in NavJobs, r \in GotoResults : login_goto(j, r)
  \/ \E j \in NavJobs, ok \in BOOLEAN : login_form(j, ok)
  \/ \E j \in NavJobs : browser_succeed(j)
  \/ \E j \in NavJobs : stage_fail(j)
  \/ \E j \in NavJobs : release_lock(j)
  \/ \E j \in NavJobs : release_instance(j)
  \/ \E j \in NavJobs : task_set_status(j)
  \/ \E j \in NavJobs : task_remove(j)
  \/ \E j \in NavJobs : process_queue(j)

NavSpec == Init /\ [][NavNext]_vars

\* ====================================================================
\* _calculate_limits over the whole range of its inputs
\* ====================================================================
LimitsInit == InitFrom(AllCpu, AllCores, AllMem)

\* a request refreshes the capacity after the interval: check_resources
\* samples CPU use and memory again (the host keeps its core count)
refresh_limits ==
  /\ cur = NoJob
  /\ RecomputeFrom(AllCpu, {system_resources.cpu_cores}, AllMem)
  /\ since_last_check' = 0
  /\ UNCHANGED <<run_results, active_runs, queued_tasks, active_instances, lock,
                 pc, cur, outcome, login_state>>
  /\ UNCHANGED detail_vars
  /\ UNCHANGED hist_vars

LimitsNext == refresh_limits

LimitsSpec == LimitsInit /\ [][LimitsNext]_vars

\* ====================================================================
\* Host metrics that cannot be sampled
\* ====================================================================
\* update_system_resources and _calculate_limits when sampling fails.  No
\* caller catches the exception.  Either a psutil call of
\* update_system_resources raises, before system_resources is assigned; or
\* system_resources is assigned and _calculate_limits raises: its
\* psutil.cpu_percent raises, or cpu_cores is None and the product of the
\* CPU limit raises TypeError.  max_instances and last_resource_check keep
\* their values.
sample_fault ==
  /\ \/ UNCHANGED system_resources
     \/ \E c \in CoreSamples \cup {NoCores}, m \in MemSamples :
          system_resources' = [cpu_cores |-> c, available_memory |-> m]
  /\ metrics_failed' = TRUE
  /\ UNCHANGED <<max_instances, cpu_usage, since_last_check, since_last_recalc>>

\* GET /api/dashboard-data: check_resources raises, the request fails
get_dashboard_data_fault ==
  /\ cur = NoJob
  /\ since_last_check > resource_check_interval
  /\ sample_fault
  /\ UNCHANGED <<run_results, active_runs, queued_tasks, active_instances, lock,
                 pc, cur, outcome, login_state>>
  /\ UNCHANGED detail_vars
  /\ UNCHANGED hist_vars

\* create_run: check_resources raises and the exception leaves the handler;
\* run_results[run_id] stays {"status": "pending"}
create_run_check_fault(j) ==
  /\ cur = j
  /\ pc[j] = "cr_check"
  /\ since_last_check > resource_check_interval
  /\ sample_fault
  /\ pc' = [pc EXCEPT ![j] = "aborted"]
  /\ cur' = NoJob
  /\ UNCHANGED <<run_results, active_runs, queued_tasks, active_instances, lock,
                 outcome, login_state>>
  /\ UNCHANGED detail_vars
  /\ UNCHANGED hist_vars

\* acquire_instance: check_resources raises; the loop of run_automation is
\* before its try, so the exception goes straight to automation_task
acquire_check_fault(j) ==
  /\ cur = j
  /\ pc[j] = "acq_check"
  /\ since_last_check > resource_check_interval
  /\ sample_fault
  /\ outcome' = [outcome EXCEPT ![j] = "metrics"]
  /\ pc' = [pc EXCEPT ![j] = "set_status"]
  /\ UNCHANGED <<run_results, active_runs, queued_tasks, active_instances, lock,
                 cur, login_state>>
  /\ UNCHANGED detail_vars
  /\ UNCHANGED hist_vars

\* release_instance: the id is discarded, then the sampling raises; the
\* with statement gives the lock back and the exception leaves the finally
\* clause of run_automation in place of its result or its exception
release_instance_fault(j) ==
  /\ cur = j
  /\ pc[j] = "rel_body"
  /\ lock = j
  /\ active_instances' = active_instances \ {j}
  /\ sample_fault
  /\ lock' = NoJob
  /\ released' = [released EXCEPT ![j] = @ + 1]
  /\ outcome' = [outcome EXCEPT ![j] = "metrics"]
  /\ pc' = [pc EXCEPT ![j] = "set_status"]
  /\ UNCHANGED <<run_results, active_runs, queued_tasks, cur, login_state>>
  /\ UNCHANGED detail_vars
  /\ UNCHANGED <<enqueue_log, dequeue_log, removed, drained>>

FaultNext ==
  \/ Next
  \/ get_dashboard_data_fault
  \/ \E j \in Jobs : create_run_check_fault(j)
  \/ \E j \in Jobs : acquire_check_fault(j)
  \/ \E j \in Jobs : release_instance_fault(j)

FaultSpec == Init /\ [][FaultNext]_vars

\* ====================================================================
\* One field loop of login with _try_selectors and _try_fill_input or
\* _try_click_button, driver call by driver call
\* ====================================================================
\* asyncio.sleep(1) at the end of the except clause of the loop, then the
\* next attempt, which calls _try_selectors anew, or the else clause of the
\* for loop: raise AutomationError
field_backoff(f) ==
  IF f.attempt < field_attempts - 1
  THEN [f EXCEPT !.backoffs = @ + 1, !.attempt = @ + 1, !.at = "selectors",
                 !.sel = 1, !.sel_log = << >>]
  ELSE [f EXCEPT !.backoffs = @ + 1, !.at = "left", !.exit = "exhausted"]

\* the loop body raised TimeoutError (no field found, or the helper
\* returned False): except TimeoutError reloads the page when attempt == 1
\* and sleeps
field_failed(f) ==
  IF f.attempt = 1
  THEN [f EXCEPT !.failed = @ + 1, !.at = "reload"]
  ELSE field_backoff([f EXCEPT !.failed = @ + 1])

\* _try_selectors catches TimeoutError only: another error of
\* wait_for_selector leaves _try_selectors and the loop, whose handler is
\* except TimeoutError as well
selector_raise(f, r) == r = "error"

\* await self.page.wait_for_selector(selector, state="visible") for the
\* selector at position sel of the list
try_selector(r) ==
  /\ field.at = "selectors"
  /\ LET f == [field EXCEPT !.sel_log = Append(@, r), !.last = r] IN
     field' =
       IF r = "ok"
       THEN [f EXCEPT !.helper = "element", !.at = "prepare", !.try_attempt = 0,
                      !.strat = 1, !.strat_log = << >>, !.prepare_raised = FALSE]
       ELSE IF selector_raise(f, r)
       THEN [f EXCEPT !.helper = "raise", !.failed = @ + 1, !.at = "left",
                      !.exit = "error"]
       ELSE IF f.sel < selectors(f.loop)
       THEN [f EXCEPT !.sel = @ + 1]
       ELSE field_failed([f EXCEPT !.helper = "None"])
  /\ UNCHANGED service_vars
  /\ UNCHANGED <<verify, retry, singleton>>

\* variant that returns False after the first attempt
try_attempt_over_once(f) == field_failed([f EXCEPT !.helper = "False"])

\* an attempt of _try_fill_input or _try_click_button is over without
\* success: sleep(1) and the next attempt, or return False after the last
try_attempt_over(f) ==
  IF f.try_attempt < max_attempts - 1
  THEN [f EXCEPT !.try_attempt = @ + 1, !.at = "prepare", !.strat = 1]
  ELSE field_failed([f EXCEPT !.helper = "False"])

\* element.focus() or element.scroll_into_view_if_needed() at the start of
\* an attempt, inside the outer try: when it raises, the outer except
\* clause ends the attempt before any strategy
try_prepare(r) ==
  /\ field.at = "prepare"
  /\ field' = IF r = "ok"
              THEN [field EXCEPT !.at = "strategy", !.strat = 1, !.last = r]
              ELSE try_attempt_over([field EXCEPT !.prepare_raised = TRUE, !.last = r])
  /\ UNCHANGED service_vars
  /\ UNCHANGED <<verify, retry, singleton>>

\* the strategy at position strat failed inside its own try: the next
\* strategy of the attempt, or the end of the attempt
strategy_next(f) ==
  IF f.strat < strategies(f.loop)
  THEN [f EXCEPT !.strat = @ + 1]
  ELSE try_attempt_over(f)

\* variant without the return True after a strategy that worked
strategy_returns_never(r) == FALSE

\* return True right after the strategy call that worked
strategy_returns(r) == r = "ok"

\* one strategy of the attempt: it succeeds and the helper returns True, so
\* that the loop of login breaks, or it raises or declines
try_strategy(r) ==
  /\ field.at = "strategy"
  /\ r = "no" => can_decline(field.loop, field.strat)
  /\ LET f == [field EXCEPT !.strat_log = Append(@, <<field.try_attempt, field.strat>>),
                            !.last = r] IN
     field' = IF strategy_returns(r)
              THEN [f EXCEPT !.helper = "True", !.at = "left", !.exit = "break"]
              ELSE strategy_next(f)
  /\ UNCHANGED service_vars
  /\ UNCHANGED <<verify, retry, singleton>>

\* await self.page.reload(wait_until='domcontentloaded') inside the except
\* clause of the loop: an exception it raises leaves the loop
page_reload(r) ==
  /\ field.at = "reload"
  /\ LET f == [field EXCEPT !.reloads = @ + 1, !.last = r] IN
     field' = IF r = "ok"
              THEN field_backoff(f)
              ELSE [f EXCEPT !.at = "left", !.exit = r]
  /\ UNCHANGED service_vars
  /\ UNCHANGED <<verify, retry, singleton>>

\* login reaches one of its three field loops
ActionInit ==
  /\ HostInit({0}, {1}, {4})
  /\ \E loop \in FieldLoops : field = field_start(loop)
  /\ verify = verify_idle
  /\ retry = retry_idle
  /\ singleton = singleton_start

ActionNext ==
  \/ \E r \in DriverResults : try_selector(r)
  \/ \E r \in DriverResults : try_prepare(r)
  \/ \E r \in StrategyResults : try_strategy(r)
  \/ \E r \in DriverResults : page_reload(r)

ActionSpec == ActionInit /\ [][ActionNext]_vars

\* ====================================================================
\* verificar_elegibilidade: the steps before the result, the result search
\* and the retry wrapper around both
\* ====================================================================
\* variant that treats a search without a match as an error
search_raises_unmatched(found) == ~found

\* the result search raises nothing of its own: the exceptions of its
\* strategies are caught and _capture_screenshot catches its own
search_raises(found) == FALSE

\* an invocation of verificar_elegibilidade raised: its except clause
\* wraps the exception and the wrapper sleeps and calls again, or raises
\* after the last attempt; run_automation then raises and automation_task
\* records the job as failed
verify_raise(v) ==
  IF v.attempt < verify_max_retries - 1
  THEN [v EXCEPT !.attempt = @ + 1, !.at = "steps"]
  ELSE [v EXCEPT !.at = "left", !.result = "error",
                 !.status = final_record("verify").status]

\* the cookie popup, the CPF field, its filling and the button: they go
\* through, or one of them raises
verify_steps(ok) ==
  /\ verify.at = "steps"
  /\ verify' = IF ok THEN [verify EXCEPT !.at = "search"] ELSE verify_raise(verify)
  /\ UNCHANGED service_vars
  /\ UNCHANGED <<field, retry, singleton>>

\* the waits for the loading indicators, whose failures are ignored, the
\* result search, the screenshot and the return; run_automation returns
\* the result and automation_task records it
verify_search ==
  /\ verify.at = "search"
  /\ LET found == result_search(verify.testid, verify.generic) # "none"
         v == [verify EXCEPT !.searches = @ + 1, !.result_found = found] IN
     verify' = IF search_raises(found)
               THEN verify_raise(v)
               ELSE [v EXCEPT !.at = "left",
                              !.result = result_text(verify.testid, verify.generic),
                              !.status = final_record("ok").status]
  /\ UNCHANGED service_vars
  /\ UNCHANGED <<field, retry, singleton>>

\* run_automation reaches the verification of a job, with some result page
VerifyInit ==
  /\ HostInit({0}, {1}, {4})
  /\ field = field_idle
  /\ retry = retry_idle
  /\ singleton = singleton_start
  /\ \E testid \in Elements(MaxElements), generic \in Elements(MaxElements),
        loading \in BOOLEAN :
       verify = verify_start(testid, generic, loading)

VerifyNext ==
  \/ \E ok \in BOOLEAN : verify_steps(ok)
  \/ verify_search

VerifySpec == VerifyInit /\ [][VerifyNext]_vars

\* ====================================================================
\* The wrapper of retry_on_failure(max_retries, delay)
\* ====================================================================
\* variant that keeps the error of the first failed attempt
retry_message_first(errors) == errors[1]

\* str(e) in AutomationError(f"Falha apos {max_retries} tentativas: {str(e)}"):
\* e is the exception just caught
retry_message(errors) == errors[Len(errors)]

\* return await func(*args, **kwargs): it returns (r = "ok") and the wrapper
\* returns its result, or it raises r and the wrapper goes to sleep or,
\* after the last attempt, raises AutomationError
wrapped_call(r) ==
  /\ retry.at = "call"
  /\ LET w == [retry EXCEPT !.calls = @ + 1] IN
     retry' =
       IF r = "ok"
       THEN [w EXCEPT !.at = "returned"]
       ELSE IF retry.attempt < retry.max_retries - 1
       THEN [w EXCEPT !.errors = Append(@, r), !.at = "sleep"]
       ELSE [w EXCEPT !.errors = Append(@, r), !.at = "raised",
                      !.message = retry_message(Append(retry.errors, r))]
  /\ UNCHANGED service_vars
  /\ UNCHANGED <<field, verify, singleton>>

\* await asyncio.sleep(delay), then the next attempt
retry_sleep ==
  /\ retry.at = "sleep"
  /\ retry' = [retry EXCEPT !.sleeps = @ + 1, !.slept = @ + retry.delay,
                            !.attempt = @ + 1, !.at = "call"]
  /\ UNCHANGED service_vars
  /\ UNCHANGED <<field, verify, singleton>>

\* a decorated function is called, with some max_retries and delay
RetryInit ==
  /\ HostInit({0}, {1}, {4})
  /\ field = field_idle
  /\ verify = verify_idle
  /\ singleton = singleton_start
  /\ \E n \in 1..MaxRetries, d \in Delays : retry = retry_start(n, d)

RetryNext ==
  \/ \E r \in Errors \cup {"ok"} : wrapped_call(r)
  \/ retry_sleep

RetrySpec == RetryInit /\ [][RetryNext]_vars

\* ====================================================================
\* ResourceManager(): __new__ called from several threads
\* ====================================================================
\* variant of __new__ without "with cls._lock"
lock_free_unchecked(holder) == TRUE

\* with cls._lock: the caller goes on when nobody holds the lock
lock_free(holder) == holder = NoJob

\* with cls._lock
new_lock(c) ==
  /\ singleton.at[c] = "start"
  /\ lock_free(lock)
  /\ lock' = c
  /\ singleton' = [singleton EXCEPT !.at[c] = "test"]
  /\ UNCHANGED <<active_instances, max_instances, system_resources, cpu_usage,
                 since_last_check, since_last_recalc, metrics_failed>>

\* if cls._instance is None
new_test(c) ==
  /\ singleton.at[c] = "test"
  /\ singleton' = [singleton EXCEPT
                      !.at[c] = IF singleton.instance = NoInstance THEN "create" ELSE "return"]
  /\ UNCHANGED rm_vars

\* cls._instance = super().__new__(cls); cls._instance._initialize():
\* a new object, whose active_instances is empty, whose last_resource_check
\* is 0 and whose max_instances is computed from fresh samples
new_create(c) ==
  /\ singleton.at[c] = "create"
  /\ singleton' = [singleton EXCEPT !.created = @ + 1, !.instance = singleton.created + 1,
                                    !.inits = @ + 1, !.at[c] = "return"]
  /\ active_instances' = {}
  /\ since_last_check' = resource_check_interval + 1
  /\ Recompute
  /\ UNCHANGED lock

\* return cls._instance, which leaves the with block
new_return(c) ==
  /\ singleton.at[c] = "return"
  /\ singleton' = [singleton EXCEPT !.got[c] = singleton.instance, !.at[c] = "has"]
  /\ lock' = NoJob
  /\ UNCHANGED <<active_instances, max_instances, system_resources, cpu_usage,
                 since_last_check, since_last_recalc, metrics_failed>>

\* acquire_instance on the instance the caller got: await check_resources()
caller_check(c) ==
  /\ singleton.at[c] = "has"
  /\ check_resources
  /\ singleton' = [singleton EXCEPT !.at[c] = "checked"]
  /\ UNCHANGED <<active_instances, lock>>

\* acquire_instance, the body under self._lock: the caller's id is added to
\* active_instances when there is room; when there is none run_automation
\* calls acquire_instance again
caller_admit(c) ==
  /\ singleton.at[c] = "checked"
  /\ lock = NoJob
  /\ active_instances' = IF instances_full THEN active_instances
                         ELSE active_instances \cup {c}
  /\ singleton' = [singleton EXCEPT
                      !.at[c] = IF instances_full THEN "has" ELSE "admitted"]
  /\ UNCHANGED <<max_instances, system_resources, cpu_usage, since_last_check,
                 since_last_recalc, metrics_failed, lock>>

\* a step of a caller leaves the rest of the service as it is
CallerStep(A) ==
  /\ A
  /\ UNCHANGED <<run_results, active_runs, queued_tasks, pc, cur, outcome, login_state>>
  /\ UNCHANGED hist_vars
  /\ UNCHANGED <<field, verify, retry>>

\* the process starts: nothing has called ResourceManager() yet
NewInit ==
  /\ HostInit({0}, {2}, {30})
  /\ field = field_idle
  /\ verify = verify_idle
  /\ retry = retry_idle
  /\ singleton = singleton_start

NewNext ==
  \/ \E c \in Callers : CallerStep(new_lock(c))
  \/ \E c \in Callers : CallerStep(new_test(c))
  \/ \E c \in Callers : CallerStep(new_create(c))
  \/ \E c \in Callers : CallerStep(new_return(c))
  \/ \E c \in Callers : CallerStep(caller_check(c))
  \/ \E c \in Callers : CallerStep(caller_admit(c))

NewSpec == NewInit /\ [][NewNext]_vars

\* ====================================================================
\* Claims
\* ====================================================================
Terminal == {"completed", "failed"}
InQueue(j) == \E i \in 1..Len(queued_tasks) : queued_tasks[i] = j
IsPrefix(s, t) == Len(s) <= Len(t) /\ \A i \in 1..Len(s) : s[i] = t[i]

\* C1: the number of jobs holding an execution slot never exceeds the
\* current capacity: len(active_runs) <= max_instances and
\* len(active_instances) <= max_instances in every reachable state.
C1_SlotsWithinCapacity ==
  /\ Cardinality(active_runs) <= max_instances
  /\ Cardinality(active_instances) <= max_instances

\* C2: jobs leave the queue in exactly the order they entered it: the jobs
\* process_queue has started are a prefix of the jobs create_run queued, the
\* queue holds the rest in that order, and a job queued before another has
\* left status queued whenever the other has.
C2_FifoOrder ==
  /\ IsPrefix(dequeue_log, enqueue_log)
  /\ queued_tasks = SubSeq(enqueue_log, Len(dequeue_log) + 1, Len(enqueue_log))
  /\ \A a, b \in 1..Len(enqueue_log) :
       (a < b /\ Status(enqueue_log[b]) # "queued") => Status(enqueue_log[a]) # "queued"

C2_Witness ==
  /\ Len(dequeue_log) >= 2
  /\ Len(enqueue_log) >= 2

C5_AtLeastOne == max_instances >= 1

C5_Witness ==
  /\ cpu_usage = 100
  /\ system_resources.available_memory < memory_per_instance_gb
  /\ max_instances = 1
  /\ \E j \in Jobs : released[j] = 1

\* C6: a status only moves along pending -> queued, pending -> running,
\* queued -> running, running -> completed, running -> failed (a new job
\* starts as pending), and the record of a completed or failed job never
\* changes again.
StatusEdges ==
  {<<"none", "pending">>, <<"pending", "queued">>, <<"pending", "running">>,
   <<"queued", "running">>, <<"running", "completed">>, <<"running", "failed">>}

C6_StatusTransitions ==
  [][\A j \in Jobs :
       /\ Status(j)' # Status(j) => <<Status(j), Status(j)'>> \in StatusEdges
       /\ Status(j) \in Terminal => run_results'[j] = run_results[j]]_vars

C6_Witness ==
  \E j, k \in Jobs :
    /\ j # k
    /\ Status(j) \in Terminal
    /\ Status(k) \in Terminal
    /\ \E i \in 1..Len(dequeue_log) : dequeue_log[i] = k

\* C7: every job whose status becomes running eventually reaches completed
\* or failed, also while other jobs keep being submitted and started; in
\* particular the slot-acquisition loop of run_automation eventually gets
\* its slot.
C7_RunningTerminates ==
  \A j \in Jobs : (Status(j) = "running") ~> (Status(j) \in Terminal)

\* C8: acquire_instance(id) adds id and returns true if
\* len(active_instances) < max_instances, otherwise returns false and leaves
\* active_instances unchanged; the check and the add are one step taken with
\* the lock held, and nothing else changes the set while the lock is held.
C8_AcquireInstance ==
  [][/\ \A j \in Jobs :
          (pc[j] = "acq_test" /\ pc'[j] # "acq_test") =>
            /\ lock = j
            /\ max_instances' = max_instances
            /\ IF Cardinality(active_instances) < max_instances
               THEN active_instances' = active_instances \cup {j} /\ pc'[j] = "launch"
               ELSE active_instances' = active_instances /\ pc'[j] = "sleeping"
     /\ \A j \in Jobs :
          (j \in active_instances' /\ j \notin active_instances) => pc[j] = "acq_test"]_vars

C8_Witness ==
  \E j, k \in Jobs :
    /\ pc[j] = "sleeping"
    /\ pc[k] = "launch"
    /\ k \in active_instances
    /\ j \notin active_instances

\* C9: create_run places a job in queued_tasks only when len(active_runs)
\* is exactly equal to max_instances at that admission decision.
C9_QueuedOnlyWhenFull ==
  [][\A j \in Jobs :
       (pc[j] = "cr_admit" /\ pc'[j] = "queued") =>
         Cardinality(active_runs) = max_instances]_vars

C11_TwoRunOneQueued ==
  cur = NoJob =>
    /\ (Status(3) # "none" /\ \A j \in Jobs : removed[j] = 0) =>
         /\ Status(1) = "running"
         /\ Status(2) = "running"
         /\ Status(3) = "queued"
         /\ queued_tasks # << >>
         /\ Head(queued_tasks) = 3
    /\ (Status(3) # "none" /\ \E j \in {1, 2} : Status(j) \in Terminal) =>
         /\ Status(3) \in {"running", "completed", "failed"}
         /\ ~InQueue(3)

C11_Witness ==
  /\ cur = NoJob
  /\ max_instances = 2
  /\ enqueue_log # << >>
  /\ Head(enqueue_log) = 3
  /\ Status(3) = "running"
  /\ 3 \in active_runs
  /\ \E j, k \in {1, 2} : Status(j) \in Terminal /\ Status(k) = "running"

\* C12: a job whose page navigation fails on every attempt (every goto
\* times out, returns no response or returns a status other than 200) never
\* gets past the navigation; once all retries are used up and its task has
\* ended it has status failed with a message, its id is in neither
\* active_instances nor active_runs, and a create_run that then finds the
\* active count below capacity starts its job as running.
NavExhausted(j) == outcome[j] = "navigation"

C12_NavigationFailure ==
  [][/\ \A j \in NavJobs :
          /\ pc'[j] = "login_form" => login_state'[j].page = "loaded"
          /\ (pc[j] = "login" /\ pc'[j] \notin {"login", "login_form"}
                /\ login_state[j].page # "loaded") => NavExhausted(j)'
          /\ (NavExhausted(j) /\ ~NavExhausted(j)') =>
                /\ run_results'[j] = [status |-> "failed", result |-> "error"]
                /\ j \notin active_instances'
                /\ released'[j] = 1
          /\ (Status(j)' = "failed" /\ cur' # j) =>
                (j \notin active_runs' /\ j \notin active_instances')
     /\ \A j, k \in NavJobs :
          (Status(j) = "failed" /\ pc[k] = "cr_admit" /\ pc'[k] # "cr_admit"
             /\ Cardinality(active_runs) < max_instances) =>
            (Status(k)' = "running" /\ k \in active_runs' /\ pc'[k] = "scheduled")]_vars

C12_Witness ==
  /\ NavExhausted(1)
  /\ pc[1] = "set_status"
  /\ 1 \notin active_instances
  /\ Status(2) = "queued"

\* C13: when run_automation raises, the task of that job keeps the event
\* loop until it has recorded status failed with a message, removed the id
\* and drained the queue (the exception ends in the except branch of
\* automation_task); none of these steps changes the record of another job
\* or the queue, except that the drain takes jobs from the head of the
\* queue and marks them running.
Raised(j) == outcome[j] \notin {"none", "ok"}
Failing(j) == Raised(j) \/ (Status(j) = "failed" /\ pc[j] \in {"remove", "drain"})

C13_FailureContained ==
  [][\A j \in Jobs :
       /\ Raised(j)' => (cur' = j /\ pc'[j] \in {"rel_lock", "rel_body", "set_status"})
       /\ (Raised(j) /\ ~Raised(j)') =>
            (run_results'[j] = [status |-> "failed", result |-> "error"] /\ pc'[j] = "remove")
       /\ (Failing(j) /\ pc'[j] # pc[j]) =>
            pc'[j] \in {"rel_body", "set_status", "remove", "drain", "done"}
       /\ (Failing(j) \/ Raised(j)') =>
            /\ \A k \in Jobs \ {j} :
                 \/ run_results'[k] = run_results[k]
                 \/ /\ pc[j] = "drain"
                    /\ queued_tasks # << >>
                    /\ k = Head(queued_tasks)
                    /\ run_results'[k] = [run_results[k] EXCEPT !.status = "running"]
            /\ \/ queued_tasks' = queued_tasks
               \/ pc[j] = "drain" /\ queued_tasks # << >> /\ queued_tasks' = Tail(queued_tasks)]_vars

C13_Witness ==
  \E j, k \in Jobs :
    /\ Status(j) = "failed"
    /\ run_results[j].result = "error"
    /\ pc[j] = "drain"
    /\ InQueue(k)
    /\ \E l \in Jobs : l # j /\ Status(l) = "running"

\* C14: if the host metrics cannot be sampled the capacity falls back to
\* max_instances = 1 and the caller does not fail: create_run gives its job
\* status queued or running (no job is left pending), and neither
\* acquire_instance nor release_instance hands the sampling error to the
\* job.
C14_SamplingFallback ==
  /\ metrics_failed => max_instances = 1
  /\ cur = NoJob => \A j \in Jobs : Status(j) # "pending"
  /\ \A j \in Jobs : outcome[j] # "metrics"

\* C15: for every CPU utilisation u in 0..100, core count c and available
\* memory m, max_instances is max(1, min(floor((100 - u)/100 * c / 0.5),
\* floor(m / 0.5))), taken as numbers: the smaller of the CPU-bound and the
\* memory-bound estimate, at least 1.
C15_CalculateLimits ==
  max_instances =
    Max(1, Min(((100 - cpu_usage) * system_resources.cpu_cores * 10)
                 \div (100 * cpu_per_instance),
               system_resources.available_memory \div memory_per_instance_gb))

\* a call of check_resources returns: from create_run or acquire_instance
CheckReturns(j) == pc[j] \in {"cr_check", "acq_check"} /\ pc'[j] # pc[j]

\* C16: check_resources samples the host again and recomputes
\* max_instances only if more than resource_check_interval has passed since
\* max_instances was last recomputed, by whichever operation (_initialize,
\* check_resources or release_instance); otherwise it leaves max_instances,
\* system_resources and last_resource_check as they are.
C16_ThrottledRefresh ==
  [][\A j \in Jobs :
       CheckReturns(j) =>
         IF since_last_recalc > resource_check_interval
         THEN since_last_check' = 0 /\ since_last_recalc' = 0
         ELSE UNCHANGED <<max_instances, system_resources, since_last_check>>]_vars

C18_MutationsUnderLock ==
  [][(\/ max_instances' # max_instances
      \/ active_instances' # active_instances
      \/ active_runs' # active_runs
      \/ queued_tasks' # queued_tasks) => lock # NoJob]_vars

\* C19: create_run calls the drain: when a submission has been handled no
\* queued job is left waiting while the number of active jobs is below
\* max_instances.
C19_DrainOnSubmit ==
  [][\A j \in Jobs :
       (pc[j] = "cr_admit" /\ pc'[j] # "cr_admit") =>
         (queued_tasks' = << >> \/ Cardinality(active_runs') >= max_instances')]_vars

\* C20: process_queue takes a job out of queued_tasks only to start it:
\* each step of a drain either pops the head, which is then running, in
\* active_runs and scheduled, and leaves the rest in order, or, when the
\* head cannot be admitted, leaves the whole queue as it is; no other step
\* removes or reorders queued jobs.
C20_DrainKeepsOrder ==
  [][/\ \A j \in QueueJobs :
          pc[j] = "drain" =>
            IF queued_tasks # << >> /\ Cardinality(active_runs) < max_instances
            THEN /\ queued_tasks' = Tail(queued_tasks)
                 /\ run_results'[Head(queued_tasks)].status = "running"
                 /\ Head(queued_tasks) \in active_runs'
                 /\ pc'[Head(queued_tasks)] = "scheduled"
            ELSE queued_tasks' = queued_tasks
     /\ (\A j \in QueueJobs : pc[j] # "drain") =>
          \/ queued_tasks' = queued_tasks
          \/ \E k \in QueueJobs : ~InQueue(k) /\ queued_tasks' = Append(queued_tasks, k)]_vars

C20_Witness ==
  \E j \in QueueJobs :
    /\ pc[j] = "drain"
    /\ Len(queued_tasks) >= 2
    /\ Cardinality(active_runs) >= max_instances
    /\ dequeue_log # << >>

\* the navigation loop of login is left by an exception: the wrapper starts
\* the next invocation of login or gives up
NavLoopRaises(j) ==
  /\ pc[j] = "login"
  /\ \/ login_state'[j].attempt = login_state[j].attempt + 1
     \/ pc'[j] = fail_target("login")

\* C23: a navigation failure during login, a timeout or load failure as
\* well as a response whose status is not 200, is retried inside the
\* navigation loop: the loop is left by an exception only when its third
\* attempt has failed.
C23_NavigationRetried ==
  [][\A j \in NavJobs :
       NavLoopRaises(j) => login_state[j].nav = nav_attempts - 1]_vars

\* the entries of the strategy log follow the listed order: the next
\* strategy of the same attempt, or, after the last strategy of an attempt,
\* the first strategy of a later one
InListedOrder(loop, log) ==
  /\ log # << >> => log[1][2] = 1
  /\ \A i \in 1..(Len(log) - 1) :
       \/ log[i + 1][1] = log[i][1] /\ log[i + 1][2] = log[i][2] + 1
       \/ log[i + 1][1] > log[i][1] /\ log[i + 1][2] = 1 /\ log[i][2] = strategies(loop)

\* a selector, or a strategy, has just been invoked
SelectorTried == field.at = "selectors" /\ field' # field
StrategyTried == field.at = "strategy" /\ field' # field

\* C21: the fallback of _try_selectors, _try_fill_input and
\* _try_click_button short-circuits: selectors and strategies are invoked
\* in their listed order; when the Nth is the first to succeed the call
\* returns its success at once (the element, or True, on which the loop of
\* login breaks) and nothing is invoked after it, no later selector, no
\* later strategy and no further attempt.
C21_FallbackShortCircuits ==
  [][/\ SelectorTried =>
          /\ Len(field.sel_log) = field.sel - 1
          /\ \A i \in 1..Len(field.sel_log) : field.sel_log[i] # "ok"
          /\ field'.last = "ok" =>
               /\ field'.helper = "element"
               /\ field'.sel = field.sel
               /\ field'.at = "prepare"
     /\ StrategyTried =>
          /\ field'.strat_log = Append(field.strat_log, <<field.try_attempt, field.strat>>)
          /\ InListedOrder(field.loop, field'.strat_log)
          /\ field'.last = "ok" =>
               /\ field'.helper = "True"
               /\ field'.exit = "break"
               /\ field'.at = "left"
     /\ field.at = "left" => field' = field]_vars

C21_Witness ==
  /\ field.helper = "True"
  /\ field.loop = "button"
  /\ Len(field.sel_log) = 3
  /\ field.strat_log = <<<<0, 1>>, <<0, 2>>, <<0, 3>>>>

\* C22: _try_fill_input and _try_click_button never make more than
\* max_attempts x (number of strategies) strategy invocations, so they
\* terminate, and when every attempt reaches its strategies and every
\* strategy fails they return False after exactly that many, each strategy
\* once per attempt.
C22_ExhaustsEveryStrategy ==
  /\ Len(field.strat_log) <= max_attempts * strategies(field.loop)
  /\ (field.helper = "False" /\ ~field.prepare_raised) =>
       /\ Len(field.strat_log) = max_attempts * strategies(field.loop)
       /\ \A a \in 0..(max_attempts - 1), st \in 1..strategies(field.loop) :
            field.strat_log[a * strategies(field.loop) + st] = <<a, st>>

C22_Witness ==
  /\ field.helper = "False"
  /\ ~field.prepare_raised
  /\ field.loop = "button"
  /\ Len(field.strat_log) = 12

\* a selector or a strategy has just failed
SelectorFails == field.at = "selectors" /\ field'.sel_log # field.sel_log /\ field'.helper # "element"
StrategyFails == field.at = "strategy" /\ field'.strat_log # field.strat_log /\ field'.helper # "True"

\* C28: the failure of one selector or strategy, with whatever error, stays
\* inside the helper: the next selector, the next strategy or the next
\* attempt follows, and the helper returns None or False, never raises,
\* when nothing is left.
C28_FailureHandledLocally ==
  [][/\ SelectorFails =>
          IF field.sel < selectors(field.loop)
          THEN field'.at = "selectors" /\ field'.sel = field.sel + 1
          ELSE field'.helper = "None"
     /\ StrategyFails =>
          IF field.strat < strategies(field.loop)
          THEN field'.at = "strategy" /\ field'.strat = field.strat + 1
          ELSE IF field.try_attempt < max_attempts - 1
          THEN field'.at = "prepare" /\ field'.try_attempt = field.try_attempt + 1
          ELSE field'.helper = "False"]_vars

\* C30: in a field loop of login every failed attempt is followed by the
\* 1-second backoff; the page is reloaded once, after the second failed
\* attempt and before the third; every new attempt starts at the first
\* selector; the loop is left by an exception only after three failed
\* attempts, with the AutomationError of its else clause.
C30_FieldLoopBackoff ==
  [][/\ field'.failed # field.failed =>
          /\ field'.exit \in {"none", "exhausted"}
          /\ field'.exit = "exhausted" <=> field'.failed = field_attempts
          /\ IF field'.failed = 2
             THEN field'.at = "reload"
             ELSE field'.backoffs = field.backoffs + 1
     /\ (field.at = "reload" /\ field' # field) =>
          /\ field'.backoffs = field.backoffs + 1
          /\ field'.attempt = field.attempt + 1
     /\ field'.reloads # field.reloads =>
          /\ field.failed = 2
          /\ field.reloads = 0
     /\ field'.attempt # field.attempt =>
          /\ field'.at = "selectors"
          /\ field'.sel = 1
          /\ field'.sel_log = << >>]_vars

\* the evidence on the result page
EligibleSignal == \E i \in 1..Len(verify.testid \o verify.generic) :
                    says_eligible((verify.testid \o verify.generic)[i])
NotEligibleSignal == \E i \in 1..Len(verify.testid \o verify.generic) :
                       says_not_eligible((verify.testid \o verify.generic)[i])

\* what the result handed to the submitter says
Outcome(result) ==
  IF result = "Resultado Indeterminado" THEN "Indeterminate"
  ELSE IF result = "eligible" THEN "Eligible"
  ELSE IF result = "not eligible" THEN "NotEligible"
  ELSE result
Returned == verify.at = "left" /\ verify.status = "completed"

\* C24: the outcome of a verification that returns is exactly one of
\* Eligible, NotEligible and Indeterminate, and it is Eligible whenever
\* the page carries both an eligible and a not-eligible signal.
C24_EligiblePrecedence ==
  Returned =>
    /\ Outcome(verify.result) \in {"Eligible", "NotEligible", "Indeterminate"}
    /\ (EligibleSignal /\ NotEligibleSignal) => Outcome(verify.result) = "Eligible"

\* the tag of an indeterminate result; the code's only indeterminate result
\* is read as "unable to determine"
Tag(result) == IF result = "Resultado Indeterminado" THEN "unable to determine" ELSE "none"

\* C25: with neither signal on the page the result is Indeterminate,
\* tagged "still loading" when a loading indicator is still on the page and
\* "unable to determine" when none is.
C25_IndeterminateTag ==
  (Returned /\ ~EligibleSignal /\ ~NotEligibleSignal) =>
    /\ Outcome(verify.result) = "Indeterminate"
    /\ Tag(verify.result) = IF verify.loading THEN "still loading" ELSE "unable to determine"

C27_OneResourceManager ==
  [][/\ singleton'.inits <= 1
     /\ singleton'.instance # NoInstance => singleton'.inits = 1
     /\ \A c \in Callers :
          singleton'.got[c] # singleton.got[c] =>
            /\ singleton'.got[c] = singleton'.instance
            /\ singleton'.got[c] = 1
     /\ active_instances \subseteq active_instances'
     /\ singleton'.inits # singleton.inits => active_instances = {}]_vars

C27_Witness ==
  \E c, d \in Callers :
    /\ c # d
    /\ singleton.got[c] = singleton.got[d]
    /\ singleton.got[c] # NoInstance
    /\ {c, d} \subseteq active_instances
    /\ \E e \in Callers : singleton.at[e] = "return" /\ singleton.got[e] = NoInstance

\* C29: the wrapper of retry_on_failure(max_retries, delay) invokes the
\* function at most max_retries times; it returns at the first invocation
\* that returns and invokes nothing after it; it sleeps delay between two
\* consecutive invocations and not after the last; when all max_retries
\* invocations raise it raises AutomationError with the text of the error
\* of the last one.
C29_RetryOnFailure ==
  /\ retry.calls <= retry.max_retries
  /\ retry.calls = retry.attempt + (IF retry.at \in {"idle", "call"} THEN 0 ELSE 1)
  /\ retry.slept = retry.sleeps * retry.delay
  /\ retry.sleeps = retry.attempt
  /\ retry.at = "returned" => Len(retry.errors) = retry.calls - 1
  /\ retry.at \in {"returned", "raised"} => retry.sleeps = retry.calls - 1
  /\ retry.at = "raised" =>
       /\ retry.calls = retry.max_retries
       /\ Len(retry.errors) = retry.max_retries
       /\ retry.message = retry.errors[retry.max_retries]
  /\ retry.at # "raised" => retry.message = "none"

C29_Witness ==
  /\ retry.at = "raised"
  /\ retry.max_retries = 3
  /\ retry.delay = 2
  /\ retry.errors = <<"e1", "e2", "e3">>

\* C31: admission is atomic with its capacity check: whenever a job id is
\* added to active_runs, by create_run or by process_queue, len(active_runs)
\* just before the add is below the max_instances of that instant; the test
\* and the add are one step of the task that holds the event loop, and that
\* step recomputes nothing.
C31_AtomicAdmission ==
  [][\A j \in AllJobs :
       j \notin active_runs /\ j \in active_runs' =>
         /\ Cardinality(active_runs) < max_instances
         /\ UNCHANGED <<max_instances, system_resources, cpu_usage>>
         /\ cur # NoJob
         /\ \/ cur = j /\ pc[j] = "cr_admit"
            \/ pc[cur] = "drain" /\ queued_tasks # << >> /\ j = Head(queued_tasks)
         /\ active_runs' = active_runs \cup {j}]_vars

C31_Witness ==
  /\ cur # NoJob
  /\ pc[cur] = "drain"
  /\ dequeue_log # << >>
  /\ pc[dequeue_log[Len(dequeue_log)]] = "scheduled"
  /\ max_instances = 2
  /\ Cardinality(active_runs) = 2
  /\ \E j \in Jobs : j \in active_runs /\ \A i \in 1..Len(enqueue_log) : enqueue_log[i] # j

\* C32: a new job is never started ahead of the jobs that wait: create_run
\* never takes a job from pending to running while queued_tasks is non-empty.
C32_NoOvertaking ==
  [][\A j \in AllJobs :
       Status(j) = "pending" /\ run_results'[j].status = "running" =>
         queued_tasks = << >>]_vars

\* C33: if every running job eventually terminates (no job keeps status
\* running for ever), every job with status queued eventually gets status
\* running, whatever the submissions, terminations and capacity changes.
C33_QueuedEventuallyRuns ==
  (\A j \in Jobs : []<>(Status(j) # "running"))
    => (\A j \in Jobs : (Status(j) = "queued") ~> (Status(j) = "running"))

\* C34: the queue is never stranded: whenever the event loop can switch
\* tasks and queued_tasks is non-empty, active_runs is non-empty.
C34_QueueNotStranded ==
  cur = NoJob /\ queued_tasks # << >> => active_runs # {}

C34_Witness ==
  /\ cur = NoJob
  /\ Len(queued_tasks) = 1
  /\ Cardinality(active_runs) = 1
  /\ dequeue_log # << >>
  /\ \E j \in Jobs : pc[j] = "done"

\* C35: active_instances is a subset of active_runs in every reachable
\* state; a job id enters active_instances only when it is in active_runs
\* and leaves active_runs only when it has left active_instances.
C35_ActiveSetsConsistent ==
  [][/\ active_instances \subseteq active_runs
     /\ active_instances' \subseteq active_runs'
     /\ \A j \in AllJobs :
          /\ j \notin active_instances /\ j \in active_instances' => j \in active_runs
          /\ j \in active_runs /\ j \notin active_runs' => j \notin active_instances]_vars

C35_Witness ==
  \E j, k \in Jobs :
    /\ pc[j] = "done"
    /\ released[j] = 1
    /\ k \in active_instances
    /\ active_instances # active_runs

\* C36: the drain is work-conserving: when process_queue returns either
\* queued_tasks is empty or len(active_runs) >= max_instances, and until
\* then every step of it starts the job at the head of the queue.
C36_WorkConservingDrain ==
  [][\A j \in AllJobs :
       pc[j] = "drain" /\ cur = j =>
         IF pc'[j] = "done"
         THEN /\ queued_tasks' = << >> \/ Cardinality(active_runs') >= max_instances'
              /\ UNCHANGED <<queued_tasks, active_runs, max_instances>>
         ELSE /\ queued_tasks # << >>
              /\ queued_tasks' = Tail(queued_tasks)
              /\ active_runs' = active_runs \cup {Head(queued_tasks)}
              /\ run_results'[Head(queued_tasks)].status = "running"
              /\ pc'[j] = "drain"]_vars

C36_Witness ==
  \E j \in Jobs :
    /\ pc[j] = "done"
    /\ drained[j] = 1
    /\ Len(dequeue_log) >= 2
    /\ queued_tasks = << >>
    /\ Cardinality(active_runs) = 2
    /\ max_instances > 2

====
